---- MODULE Spec2Model ----
(***************************************************************************)
(* Model of scripts/download_lp.py: the plate-carree -> Web-Mercator row   *)
(* remapping (reproject) and the download/cache/reproject driver (main).   *)
(*                                                                         *)
(* Real numbers are fixed-point integers with six decimal digits           *)
(* (1.0 = SCALE).  The transcendental functions the code calls (tan, log,  *)
(* exp, arctan) are evaluated by range reduction and power series, so that *)
(* the forward and the inverse Mercator projection are two different       *)
(* computations, as they are in the source.                                *)
(***************************************************************************)
EXTENDS Integers, Sequences, FiniteSets

(***************************************************************************)
(* Fixed-point arithmetic                                                  *)
(***************************************************************************)
\* 1.0 is SCALE = HALF_SCALE^2.
HALF_SCALE == 10 * 10 * 10
SCALE == HALF_SCALE * HALF_SCALE

Abs(a) == IF a < 0 THEN -a ELSE a
Sgn(a) == IF a < 0 THEN -1 ELSE 1

\* Integer quotient rounded toward zero.
Quo(a, n) == Sgn(a) * Sgn(n) * (Abs(a) \div Abs(n))

\* Product of two non-negative fixed-point numbers, computed on the halves
\* of the operands so that no intermediate value leaves 32 bits.
MulAbs(a, b) ==
    LET ah == a \div HALF_SCALE
        al == a % HALF_SCALE
        bh == b \div HALF_SCALE
        bl == b % HALF_SCALE
    IN  ah * bh + ((ah * bl + al * bh) \div HALF_SCALE) + ((al * bl) \div SCALE)

Mul(a, b) == Sgn(a) * Sgn(b) * MulAbs(Abs(a), Abs(b))

\* Quotient of two fixed-point numbers by long division, one decimal digit
\* of the fraction at a time.
RECURSIVE DivDigits(_, _, _, _)
DivDigits(q, r, b, n) ==
    IF n = 0 THEN q
    ELSE DivDigits(q * 10 + ((r * 10) \div b), (r * 10) % b, b, n - 1)

DivAbs(a, b) == DivDigits(a \div b, a % b, b, 6)

Div(a, b) == Sgn(a) * Sgn(b) * DivAbs(Abs(a), Abs(b))

\* math.pi, log(2) and arctan(1/2) in fixed point.
PI == 3141593
LN2 == 693147
ATAN_HALF == 463648

\* math.radians and np.degrees.
Radians(d) == Quo(Mul(d, PI), 180)
Degrees(r) == Div(r * 180, PI)

\* Number of terms after the first kept of each power series.
SeriesTerms == 6

\* sin and cos by their Taylor series (|x| < 2).

RECURSIVE SinSeries(_, _, _, _)
SinSeries(x2, term, k, acc) ==
    IF k > SeriesTerms THEN acc
    ELSE LET t == Quo(-Mul(term, x2), (2 * k) * (2 * k + 1))
         IN  SinSeries(x2, t, k + 1, acc + t)

Sin(x) == SinSeries(Mul(x, x), x, 1, x)

RECURSIVE CosSeries(_, _, _, _)
CosSeries(x2, term, k, acc) ==
    IF k > SeriesTerms THEN acc
    ELSE LET t == Quo(-Mul(term, x2), (2 * k - 1) * (2 * k))
         IN  CosSeries(x2, t, k + 1, acc + t)

Cos(x) == CosSeries(Mul(x, x), SCALE, 1, SCALE)

\* log(v), v > 0: v = m * 2^k with m in [0.75, 1.5), and
\* log m = 2 artanh((m - 1) / (m + 1)).
RECURSIVE AtanhSeries(_, _, _, _)
AtanhSeries(z2, term, n, acc) ==
    IF n > SeriesTerms THEN acc
    ELSE LET t == Mul(term, z2)
         IN  AtanhSeries(z2, t, n + 1, acc + Quo(t, 2 * n + 1))

RECURSIVE LogReduced(_, _)
LogReduced(v, k) ==
    IF v >= 3 * (SCALE \div 2) THEN LogReduced(v \div 2, k + 1)
    ELSE IF 4 * v < 3 * SCALE THEN LogReduced(v * 2, k - 1)
    ELSE LET z == Div(v - SCALE, v + SCALE)
         IN  k * LN2 + 2 * AtanhSeries(Mul(z, z), z, 1, z)

Log(v) == LogReduced(v, 0)

\* exp(y) = 2^k * exp(r), r = y - k log 2, |r| <= (log 2) / 2.
RECURSIVE ExpSeries(_, _, _, _)
ExpSeries(r, term, n, acc) ==
    IF n > SeriesTerms THEN acc
    ELSE LET t == Quo(Mul(term, r), n)
         IN  ExpSeries(r, t, n + 1, acc + t)

RECURSIVE Pow2(_)
Pow2(k) == IF k = 0 THEN 1 ELSE 2 * Pow2(k - 1)

Exp(y) ==
    LET k == (2 * y + LN2) \div (2 * LN2)
        e == ExpSeries(y - k * LN2, SCALE, 1, SCALE)
    IN  IF k >= 0 THEN e * Pow2(k) ELSE e \div Pow2(-k)

\* arctan(v), v >= 0: for v <= 1, arctan v = arctan(1/2) + arctan((v - 1/2) /
\* (1 + v/2)); for v > 1, arctan v = pi/2 - arctan(1/v).
RECURSIVE AtanSeries(_, _, _, _)
AtanSeries(z2, term, n, acc) ==
    IF n > 2 * SeriesTerms THEN acc
    ELSE LET t == -Mul(term, z2)
         IN  AtanSeries(z2, t, n + 1, acc + Quo(t, 2 * n + 1))

AtanUnit(v) ==
    LET z == Div(v - (SCALE \div 2), SCALE + (v \div 2))
    IN  ATAN_HALF + AtanSeries(Mul(z, z), z, 1, z)

Atan(v) == IF v <= SCALE THEN AtanUnit(v) ELSE (PI \div 2) - AtanUnit(Div(SCALE, v))

(***************************************************************************)
(* Reprojection (download_lp.py, "Reprojection")                           *)
(***************************************************************************)
\* Latitudes are fixed-point degrees; Deg(n) is n degrees.
Deg(n) == n * SCALE

\* tan(pi/4 + radians(lat_deg)/2), the argument of math.log in _merc_y.
MercTan(lat_deg) ==
    LET a == (PI \div 4) + Quo(Radians(lat_deg), 2)
    IN  Div(Sin(a), Cos(a))

\* math.log raises ValueError ("math domain error") for an argument <= 0.
MercDomainError(lat_deg) == MercTan(lat_deg) <= 0

\* _merc_y: Web Mercator Y for a latitude in degrees.
merc_y(lat_deg) == Log(MercTan(lat_deg))

\* np.degrees(2.0 * np.arctan(np.exp(merc_val)) - math.pi / 2.0)
InverseMerc(merc_val) == Degrees(2 * Atan(Exp(merc_val)) - (PI \div 2))

\* np.round of a fixed-point number: nearest integer, halves to even.
Rint(v) ==
    LET f == v \div SCALE
        r == v % SCALE
    IN  IF 2 * r < SCALE THEN f
        ELSE IF 2 * r > SCALE THEN f + 1
        ELSE IF f % 2 = 0 THEN f ELSE f + 1

\* Clip with the clamping left out.
ClipNone(v, lo, hi) == v

\* np.clip(v, lo, hi)
Clip(v, lo, hi) == IF v < lo THEN lo ELSE IF v > hi THEN hi ELSE v

\* .astype(np.int32) of NaN or an infinity is undefined in C: the builds
\* produce INT32_MIN (x86), 0 (NaN on ARM) or INT32_MAX (+inf on ARM).
INT32_MAX == 2147483647
INT32_MIN == -INT32_MAX - 1
UBCast == {INT32_MIN, 0, INT32_MAX}

\* The float arrays of reproject hold no finite number when out_h - 1 = 0
\* (fraction = 0/0) or lat_max - lat_min = 0 (division by zero).
NonFinite(lat_min, lat_max, out_h) == out_h = 1 \/ lat_max = lat_min

\* fraction[i] = i / (out_h - 1), for 0-based output row i.
Fraction(i, out_h) == Div(i * SCALE, (out_h - 1) * SCALE)

\* lats[i]: the latitude of output row i (0-based), lines 192-193.
LatOfRow(i, out_h, merc_min, merc_max) ==
    InverseMerc(merc_max - Mul(Fraction(i, out_h), merc_max - merc_min))

\* SrcRow clamped to [0, src_h] instead of [0, src_h - 1].
SrcRowClipHigh(lat, lat_min, lat_max, src_h) ==
    Clip(Rint(Div(lat_max - lat, lat_max - lat_min) * src_h), 0, src_h)

\* SrcRow measuring the latitude from lat_min instead of lat_max.
SrcRowFromSouth(lat, lat_min, lat_max, src_h) ==
    Clip(Rint(Div(lat - lat_min, lat_max - lat_min) * src_h), 0, src_h - 1)

\* (lat_max - lat) / (lat_max - lat_min) * src_h, rounded, cast and clipped.
SrcRow(lat, lat_min, lat_max, src_h) ==
    Clip(Rint(Div(lat_max - lat, lat_max - lat_min) * src_h), 0, src_h - 1)

\* lats as a sequence over the output rows (index i+1 holds row i); empty
\* when the values are not finite.
Lats(lat_min, lat_max, out_h) ==
    IF NonFinite(lat_min, lat_max, out_h) THEN << >>
    ELSE \* lines 185-186, evaluated once
         LET m == CHOOSE p \in { << merc_y(lat_min), merc_y(lat_max) >> } : TRUE
         IN  [k \in 1..out_h |-> LatOfRow(k - 1, out_h, m[1], m[2])]

\* y_src from lats, lines 196-200 (index i+1 holds the source row of output
\* row i); ub is the value the build's cast gives a non-finite number.
RowsOfLats(lat_seq, lat_min, lat_max, src_h, ub) ==
    IF NonFinite(lat_min, lat_max, src_h)
    THEN [k \in 1..src_h |-> Clip(ub, 0, src_h - 1)]
    ELSE [k \in 1..src_h |-> SrcRow(lat_seq[k], lat_min, lat_max, src_h)]

RowIndexMap(lat_min, lat_max, src_h, ub) ==
    RowsOfLats(Lats(lat_min, lat_max, src_h), lat_min, lat_max, src_h, ub)

\* Resample returning the source rows in their own order.
ResampleUnmapped(arr_in, rows) == arr_in

\* out_arr = arr[y_src]: row k of the result is row y_src[k] of arr.
Resample(arr_in, rows) == [k \in 1..Len(rows) |-> arr_in[rows[k] + 1]]

(***************************************************************************)
(* Images and files.  An optional value (None in the source, a missing     *)
(* file) is the empty sequence, a present one a sequence of length one.    *)
(***************************************************************************)
None == << >>
Some(v) == << v >>

\* Bounds of the source rasters.
MaxH == 6
Width == 2

\* A decoded PNG: colour mode, palette (flat RGB list, P mode only),
\* info["transparency"], and the pixel rows.
Pixel(mode, seed, r, c) ==
    LET v == (seed + (r - 1) * Width + (c - 1)) % 256
    IN  IF mode = "P" THEN v ELSE << v, (v + 1) % 256, 255 - v >>

SourceImage(mode, pal, tr, h, seed) ==
    [ mode         |-> mode,
      palette      |-> IF mode = "P" THEN pal ELSE None,
      transparency |-> tr,
      data         |-> [r \in 1..h |-> [c \in 1..Width |-> Pixel(mode, seed, r, c)]] ]

Palettes == { << 0, 0, 0, 64, 64, 64, 255, 255, 0 >>, << 0, 0, 0, 0, 0, 255 >> }
Transparencies == { None, Some(0), Some(1) }

SourceImages ==
    { SourceImage("P", pal, tr, h, 0) : pal \in Palettes, tr \in Transparencies, h \in 1..MaxH }
    \cup { SourceImage("RGB", None, None, h, 0) : h \in 1..MaxH }

\* SaveKwargs testing the truth value of transparency instead of "is not None".
SaveKwargsTruthy(tr) == IF tr # None /\ tr[1] # 0 THEN tr ELSE None

\* save_kwargs: transparency is passed to save when it is not None.
SaveKwargs(tr) == IF tr # None THEN tr ELSE None

\* Image.fromarray(out_arr, mode), putpalette when the source is a palette
\* image with a palette, save(dst_path, **save_kwargs): the file written.
SavedImage(mode, is_pal, pal, tr, pixels) ==
    [ mode         |-> mode,
      palette      |-> IF is_pal /\ pal # None THEN pal ELSE None,
      transparency |-> SaveKwargs(tr),
      data         |-> pixels ]

\* reproject as a whole: None when it raises, else the file it writes.
ReprojectFile(file, lat_min, lat_max, ub) ==
    IF MercDomainError(lat_max) \/ MercDomainError(lat_min) THEN None
    ELSE LET h == Len(file.data)
         IN  Some(SavedImage(file.mode, file.mode = "P",
                             IF file.mode = "P" THEN file.palette ELSE None,
                             file.transparency,
                             Resample(file.data, RowIndexMap(lat_min, lat_max, h, ub))))

(***************************************************************************)
(* The driver (download_lp.py, "Entry point")                              *)
(***************************************************************************)
\* FILES: url, filename and the stated extent of each source PNG, in degrees.
FILES ==
    << [ url |-> "world2024_low3.png",   filename |-> "world_low3.png",
         lat_min |-> -65, lat_max |-> 75 ],
       [ url |-> "NorthAmerica2024.png", filename |-> "NorthAmerica.png",
         lat_min |-> 7,   lat_max |-> 75 ],
       [ url |-> "SouthAmerica2024.png", filename |-> "SouthAmerica.png",
         lat_min |-> -57, lat_max |-> 14 ],
       [ url |-> "Europe2024.png",       filename |-> "Europe2024.png",
         lat_min |-> 34,  lat_max |-> 75 ],
       [ url |-> "Africa2024.png",       filename |-> "Africa.png",
         lat_min |-> -36, lat_max |-> 38 ],
       [ url |-> "Asia2024.png",         filename |-> "Asia.png",
         lat_min |-> 5,   lat_max |-> 75 ],
       [ url |-> "Australia2024.png",    filename |-> "Australia.png",
         lat_min |-> -48, lat_max |-> 8 ] >>

\* Bounds of the driver's model: the leading entries of FILES that are
\* processed, the runs of main, and the releases the server publishes.
NumTiles == 3
MaxRuns == 2
MaxVersion == 2

Tiles == 1..NumTiles
Filenames == { FILES[i].filename : i \in Tiles }

\* OutputPath computed once, from the first entry, for every entry.
OutputPathOfFirst(entry) == FILES[1].filename

\* os.path.join(CACHE_DIR, filename) and os.path.join(OUTPUT_DIR, filename):
\* a path is named by its directory's variable and the file name.

CachePath(entry) == entry.filename
OutputPath(entry) == entry.filename

\* Exists never finding the file.
ExistsNever(dir, path) == FALSE

\* os.path.exists(path)

Exists(dir, path) == dir[path] # None

\* The PNG the server holds at url in release v: a palette image whose
\* height and pixels differ between the URLs and between the releases.
RemoteImage(url, v) ==
    LET i == CHOOSE j \in 1..Len(FILES) : FILES[j].url = url
    IN  SourceImage("P", << 0, 0, 0, 64, 64, 64, 255, 255, 0 >>, Some(0),
                    2 + ((i + v) % 3), 16 * i + v)

\* _download(url, dest): dest holds the bytes the server sent.
Download(dir, url, dest, v) == [dir EXCEPT ![dest] = Some(RemoteImage(url, v))]

\* One iteration of main's loop on the directories fs = [cache, output]:
\* download unless cached, then reproject the cached file to the output
\* path.  ok is FALSE when reproject raises.
ProcessEntry(fs, entry, v, ub) ==
    LET cache1 == IF Exists(fs.cache, CachePath(entry)) THEN fs.cache
                  ELSE Download(fs.cache, entry.url, CachePath(entry), v)
        res    == ReprojectFile(cache1[CachePath(entry)][1],
                                Deg(entry.lat_min), Deg(entry.lat_max), ub)
    IN  [ cache  |-> cache1,
          output |-> IF res = None THEN fs.output
                     ELSE [fs.output EXCEPT ![OutputPath(entry)] = res],
          ok     |-> res # None ]

\* The loop of main over the entries in the order seq.
RECURSIVE RunInOrder(_, _, _)
RunInOrder(fs, seq, v) ==
    IF seq = << >> \/ ~ fs.ok THEN fs
    ELSE RunInOrder(ProcessEntry(fs, FILES[Head(seq)], v, 0), Tail(seq), v)

(***************************************************************************)
(* State                                                                   *)
(***************************************************************************)
VARIABLES
    \* one call of reproject(src_path, dst_path, lat_min, lat_max)
    pc,            \* "call", "opened", "mapped", "returned", "raised"
    src,           \* the file at src_path
    dst,           \* the file at dst_path (None: not written)
    lat_min, lat_max,
    is_palette, palette, transparency, arr, src_h,   \* locals, lines 176-183
    lats, y_src,   \* locals, lines 193-200 (None until computed)
    exc,           \* the exception raised ("" when none)
    \* the driver
    m_pc,          \* "idle", "loop", "done", "aborted"
    cache,         \* scripts/cache/lp: file name -> file or None
    output,        \* public/lp: file name -> file or None
    server,        \* the release the server holds
    processed,     \* this run's entries, in the order they were processed
    runs,          \* runs of main started
    \* history of the driver
    cache0, output0,   \* the directories when this run started
    first_cached,      \* every cache file as it was when it first existed
    downloads,         \* downloads per file name, over all runs
    reprojected        \* entries reproject was called for in this run

rvars == << pc, src, dst, lat_min, lat_max, is_palette, palette, transparency,
            arr, src_h, lats, y_src, exc >>

mvars == << m_pc, cache, output, server, processed, runs, cache0, output0,
            first_cached, downloads, reprojected >>

vars == << rvars, mvars >>

\* Latitude arguments tried, in degrees: the extents of FILES, a reversed
\* and an empty extent, and values outside [-90, 90].
LatValues == { -100, -65, 0, 34, 70, 75, 80, 100 }

\* The driver not started, with empty directories.
MainIdle ==
    /\ m_pc = "idle"
    /\ cache = [f \in Filenames |-> None]
    /\ output = [f \in Filenames |-> None]
    /\ server = 1
    /\ processed = << >>
    /\ runs = 0
    /\ cache0 = cache
    /\ output0 = output
    /\ first_cached = cache
    /\ downloads = [f \in Filenames |-> 0]
    /\ reprojected = {}

Init ==
    /\ MainIdle
    /\ pc = "call"
    /\ src \in SourceImages
    /\ dst = None
    /\ lat_min \in { Deg(d) : d \in LatValues }
    /\ lat_max \in { Deg(d) : d \in LatValues }
    /\ is_palette = FALSE
    /\ palette = None
    /\ transparency = None
    /\ arr = << >>
    /\ src_h = 0
    /\ lats = None
    /\ y_src = None
    /\ exc = ""

\* Lines 176-183: open the image, read mode, palette, transparency, pixels.
Open ==
    /\ pc = "call"
    /\ is_palette' = (src.mode = "P")
    /\ palette' = IF src.mode = "P" THEN src.palette ELSE None
    /\ transparency' = src.transparency
    /\ arr' = src.data
    /\ src_h' = Len(src.data)
    /\ pc' = "opened"
    /\ UNCHANGED << src, dst, lat_min, lat_max, lats, y_src, exc >>
    /\ UNCHANGED mvars

\* Lines 185-186: _merc_y raises ValueError for a latitude whose tangent
\* argument is not positive.
MapRowsRaise ==
    /\ pc = "opened"
    /\ MercDomainError(lat_max) \/ MercDomainError(lat_min)
    /\ exc' = "ValueError"
    /\ pc' = "raised"
    /\ UNCHANGED << src, dst, lat_min, lat_max, is_palette, palette, transparency,
                    arr, src_h, lats, y_src >>
    /\ UNCHANGED mvars

\* Lines 185-200: the latitude and the source row of every output row.
MapRows(ub) ==
    /\ pc = "opened"
    /\ ~ (MercDomainError(lat_max) \/ MercDomainError(lat_min))
    /\ lats' = Lats(lat_min, lat_max, src_h)
    /\ y_src' = RowsOfLats(lats', lat_min, lat_max, src_h, ub)
    /\ pc' = "mapped"
    /\ UNCHANGED << src, dst, lat_min, lat_max, is_palette, palette, transparency,
                    arr, src_h, exc >>
    /\ UNCHANGED mvars

\* Lines 202-212: select the rows, rebuild the image, save it.
Save ==
    /\ pc = "mapped"
    /\ dst' = Some(SavedImage(src.mode, is_palette, palette, transparency,
                              Resample(arr, y_src)))
    /\ pc' = "returned"
    /\ UNCHANGED << src, lat_min, lat_max, is_palette, palette, transparency,
                    arr, src_h, lats, y_src, exc >>
    /\ UNCHANGED mvars

Next ==
    \/ Open
    \/ MapRowsRaise
    \/ \E ub \in UBCast : MapRows(ub)
    \/ Save

Spec == Init /\ [][Next]_vars

(***************************************************************************)
(* Runs of main.  The entries of a run are taken in any order (the code    *)
(* takes them in the order of FILES, which is one of them).                *)
(***************************************************************************)
\* No call of reproject of its own is in progress.
NoCall ==
    /\ pc = "call"
    /\ src = SourceImage("RGB", None, None, 1, 0)
    /\ dst = None
    /\ lat_min = Deg(0)
    /\ lat_max = Deg(0)
    /\ is_palette = FALSE
    /\ palette = None
    /\ transparency = None
    /\ arr = << >>
    /\ src_h = 0
    /\ lats = None
    /\ y_src = None
    /\ exc = ""

\* The cache directory holds, for each file, nothing or the file of an
\* earlier release (release 0); the output directory is empty.
MainInit ==
    /\ NoCall
    /\ m_pc = "idle"
    /\ cache \in [Filenames -> { None } \cup
                    { Some(RemoteImage(FILES[i].url, 0)) : i \in Tiles }]
    /\ \A i \in Tiles : cache[FILES[i].filename] \in
                           { None, Some(RemoteImage(FILES[i].url, 0)) }
    /\ output = [f \in Filenames |-> None]
    /\ server = 1
    /\ processed = << >>
    /\ runs = 0
    /\ cache0 = cache
    /\ output0 = output
    /\ first_cached = cache
    /\ downloads = [f \in Filenames |-> 0]
    /\ reprojected = {}

Pending == Tiles \ { processed[k] : k \in 1..Len(processed) }

\* Lines 218-221: main starts.
StartRun ==
    /\ m_pc = "idle"
    /\ runs < MaxRuns
    /\ m_pc' = "loop"
    /\ runs' = runs + 1
    /\ processed' = << >>
    /\ reprojected' = {}
    /\ cache0' = cache
    /\ output0' = output
    /\ UNCHANGED << cache, output, server, first_cached, downloads >>
    /\ UNCHANGED rvars

\* The part of a loop iteration common to both branches of line 227.  The
\* extents of FILES are valid and the served rasters have two rows or more,
\* so reproject casts no non-finite value here.
Iterate(i) ==
    \E fs \in { ProcessEntry([cache |-> cache, output |-> output, ok |-> TRUE],
                             FILES[i], server, 0) } :
        /\ cache' = fs.cache
        /\ output' = fs.output
        /\ processed' = Append(processed, i)
        /\ reprojected' = reprojected \cup { i }
        /\ first_cached' = [f \in Filenames |->
                              IF first_cached[f] = None THEN fs.cache[f]
                              ELSE first_cached[f]]
        /\ m_pc' = IF ~ fs.ok THEN "aborted"
                   ELSE IF Pending = { i } THEN "done" ELSE "loop"
        /\ UNCHANGED << server, runs, cache0, output0 >>
        /\ UNCHANGED rvars

\* Lines 227-229 and 236-241: the cache file exists.
CacheHit(i) ==
    /\ m_pc = "loop"
    /\ i \in Pending
    /\ Exists(cache, CachePath(FILES[i]))
    /\ UNCHANGED downloads
    /\ Iterate(i)

\* Lines 230-241: the cache file does not exist and is downloaded.
CacheMiss(i) ==
    /\ m_pc = "loop"
    /\ i \in Pending
    /\ ~ Exists(cache, CachePath(FILES[i]))
    /\ downloads' = [downloads EXCEPT ![CachePath(FILES[i])] = @ + 1]
    /\ Iterate(i)

\* Lines 243-250: the summary; main returns.
Finish ==
    /\ m_pc = "done"
    /\ m_pc' = "idle"
    /\ UNCHANGED << cache, output, server, processed, runs, cache0, output0,
                    first_cached, downloads, reprojected >>
    /\ UNCHANGED rvars

\* Between two runs the server publishes a new release of the PNGs.
Publish ==
    /\ m_pc = "idle"
    /\ server < MaxVersion
    /\ server' = server + 1
    /\ UNCHANGED << m_pc, cache, output, processed, runs, cache0, output0,
                    first_cached, downloads, reprojected >>
    /\ UNCHANGED rvars

MainNext ==
    \/ StartRun
    \/ \E i \in Tiles : CacheHit(i)
    \/ \E i \in Tiles : CacheMiss(i)
    \/ Finish
    \/ Publish

SpecMain == MainInit /\ [][MainNext]_vars

(***************************************************************************)
(* Properties of reproject                                                 *)
(***************************************************************************)
\* A valid extent: lat_min < lat_max, both strictly inside (-90, 90).
ValidExtent == lat_min < lat_max /\ Deg(-90) < lat_min /\ lat_max < Deg(90)

\* A malformed extent: lat_min >= lat_max, or a bound outside [-90, 90].
MalformedExtent ==
    \/ lat_min >= lat_max
    \/ lat_min < Deg(-90) \/ lat_min > Deg(90)
    \/ lat_max < Deg(-90) \/ lat_max > Deg(90)

Mapped == pc \in { "mapped", "returned" }

\* C1: for a valid extent and a height H >= 2, the row-index map sends
\* output row 0 to source row 0 and output row H-1 to source row H-1.
C1_BoundaryRows ==
    (Mapped /\ ValidExtent /\ src_h >= 2) =>
        (y_src[1] = 0 /\ y_src[src_h] = src_h - 1)

C1_Witness == pc = "returned" /\ ValidExtent /\ src_h >= 3 /\ y_src[src_h] = src_h - 1

\* The distance in latitude, scaled by (H-1), between output row k's latitude
\* and source row r, where source row r lies at lat_max - r/(H-1) * (lat_max
\* - lat_min).
LatDistance(k, r) == Abs((lat_max - lats[k]) * (src_h - 1) - r * (lat_max - lat_min))

\* C2: for every output row the source row chosen is the source row nearest
\* in latitude to the output row's latitude, source row r lying at
\* lat_max - r/(H-1) * (lat_max - lat_min).
C2_NearestRow ==
    (Mapped /\ ValidExtent /\ src_h >= 2) =>
        \A k \in 1..src_h : \A r \in 0..(src_h - 1) :
            LatDistance(k, y_src[k]) <= LatDistance(k, r)

\* C3: for a valid extent and a height H >= 2, the row-index map is
\* monotonically non-decreasing.
C3_Monotone ==
    (Mapped /\ ValidExtent /\ src_h >= 2) =>
        \A i \in 1..src_h : \A j \in 1..src_h : i < j => y_src[i] <= y_src[j]

\* A row-index map that both repeats a source row and skips one.
C3_Witness ==
    /\ pc = "returned" /\ ValidExtent /\ src_h >= 4
    /\ \E k \in 1..(src_h - 1) : y_src[k + 1] = y_src[k]
    /\ \E k \in 1..(src_h - 1) : y_src[k + 1] > y_src[k] + 1

\* C4: a call with a malformed extent fails before any row-index
\* computation and writes no output file.
C4_InvalidExtentRejected ==
    MalformedExtent => (~ Mapped /\ y_src = None /\ dst = None)

\* C5: a source raster of height H <= 1 is rejected: no row-index map is
\* computed and no output raster is produced.
C5_DegenerateHeightRejected ==
    (pc # "call" /\ src_h <= 1) => (~ Mapped /\ y_src = None /\ dst = None)

\* C6: the output raster has the height, width and channel count of the
\* source, and output row i is a copy of source row rowIndexMap[i] in every
\* column and channel.
C6_RowCopy ==
    pc = "returned" =>
        /\ dst # None
        /\ Len(dst[1].data) = Len(src.data)
        /\ \A k \in 1..Len(dst[1].data) :
              /\ Len(dst[1].data[k]) = Width
              /\ \A c \in 1..Width : dst[1].data[k][c] = src.data[y_src[k] + 1][c]

\* An output whose rows are not the source rows in their own order.
C6_Witness ==
    /\ pc = "returned" /\ dst # None /\ src.mode = "RGB"
    /\ \E k \in 1..src_h : y_src[k] # k - 1

\* C7: in every call the row-index map has exactly H entries, each an
\* integer in [0, H-1].
C7_InRange ==
    Mapped => (Len(y_src) = src_h /\ \A k \in 1..src_h : y_src[k] \in 0..(src_h - 1))

\* A call on an empty extent, whose cast met a non-finite value that the
\* build turned into INT32_MAX, clamped to the last row.
C7_Witness ==
    /\ pc = "returned" /\ src_h >= 2
    /\ lat_min = lat_max
    /\ y_src[1] = src_h - 1

\* C8: for a palette-mode source the output keeps the colour mode, the
\* palette and the transparency index (index 0 included).
C8_PalettePreserved ==
    (pc = "returned" /\ src.mode = "P") =>
        /\ dst # None
        /\ dst[1].mode = "P"
        /\ dst[1].palette = src.palette
        /\ dst[1].transparency = src.transparency
        /\ \A k \in 1..Len(dst[1].data) : \E r \in 1..Len(src.data) :
              dst[1].data[k] = src.data[r]

C8_Witness ==
    pc = "returned" /\ src.mode = "P" /\ src.transparency = Some(0) /\ dst # None

(***************************************************************************)
(* Properties of main                                                      *)
(***************************************************************************)
FilesOrder == [k \in 1..NumTiles |-> k]

\* The output file reproject writes for entry i from the cache as it is.
OutputOf(i) ==
    ReprojectFile(cache[FILES[i].filename][1],
                  Deg(FILES[i].lat_min), Deg(FILES[i].lat_max), 0)

\* A step leaves an existing cache file as it is and downloads nothing for it.
CacheKept ==
    \A f \in Filenames :
        cache[f] # None => (cache'[f] = cache[f] /\ downloads'[f] = downloads[f])

\* A completed run called reproject for every entry, and every output file
\* is the reprojection of the entry's cache file.
AllReprojected ==
    m_pc = "done" =>
        /\ reprojected = Tiles
        /\ \A i \in Tiles : output[FILES[i].filename] = OutputOf(i)

\* C9: a tile is downloaded only when its cache file does not exist; once
\* the cache file is present no later run downloads the tile or changes the
\* cache file, and every run still reprojects every tile from the cache and
\* rewrites its output file.
C9_CacheOnce == [][CacheKept]_vars /\ []AllReprojected

\* A second run, after the server published a newer release, completed with
\* a cache file of release 0 and a cache file of release 1 both kept.
C9_Witness ==
    /\ m_pc = "done" /\ runs = 2 /\ server = 2
    /\ reprojected = Tiles
    /\ \E i \in Tiles : cache[FILES[i].filename] = Some(RemoteImage(FILES[i].url, 0))
    /\ \E i \in Tiles : /\ cache[FILES[i].filename] = Some(RemoteImage(FILES[i].url, 1))
                        /\ downloads[FILES[i].filename] = 1

\* A step changes the cache and the output file of the entry it processes
\* and of no other entry.
OwnFilesOnly ==
    \A i \in Tiles :
        (Len(processed') = Len(processed) + 1 /\ processed'[Len(processed')] # i) =>
            /\ cache'[FILES[i].filename] = cache[FILES[i].filename]
            /\ output'[FILES[i].filename] = output[FILES[i].filename]

\* A completed run, whatever the order of its entries, leaves the cache and
\* output files that the run in the order of FILES leaves, and each output
\* file is determined by the entry's own cache file and extent.
OrderIndependent ==
    m_pc = "done" =>
        LET r == RunInOrder([cache |-> cache0, output |-> output0, ok |-> TRUE],
                            FilesOrder, server)
        IN  /\ cache = r.cache
            /\ output = r.output
            /\ \A i \in Tiles : output[FILES[i].filename] = OutputOf(i)

\* C10: tile processing is stateless and order-independent.
C10_OrderIndependent == [][OwnFilesOnly]_vars /\ []OrderIndependent

\* A completed run that took the entries in another order than FILES and
\* downloaded at least one of them.
C10_Witness ==
    /\ m_pc = "done"
    /\ processed[1] = NumTiles
    /\ processed[NumTiles] = 1
    /\ cache # cache0

====
